---------------------------- MODULE Spec2Model ----------------------------
(***************************************************************************)
(* Model of streamlit_app.py: the DatabaseConnector (test_connection,      *)
(* execute_query and the three connect_* helpers), the session-scoped      *)
(* connection registry st.session_state.db_connections, the metadata       *)
(* tables DB_CONNECTION_METADATA and DB_QUERY_HISTORY reached through the  *)
(* Snowflake session, and the button handlers of the three tabs.           *)
(*                                                                         *)
(* Text is a sequence of chunks.  A chunk is a one-character string where  *)
(* the code looks at characters (":", "/", "'", digits) and otherwise a    *)
(* run of characters none of which the code inspects.                      *)
(***************************************************************************)
EXTENDS Integers, Sequences, FiniteSets, TLC

VARIABLES
    available,          \* DATABASE_CONFIGS[kind]["available"]
    session,            \* init_snowflake_connection() returned a session
    db_connections,     \* st.session_state.db_connections
    connections,        \* DatabaseConnector.connections
    metadata,           \* rows of DB_CONNECTION_METADATA, keyed by pool_name
    history,            \* rows of DB_QUERY_HISTORY, in insertion order
    sent,               \* statements the last handler passed to session.sql
    lastOp,             \* what the last handler did (inputs, driver calls, result)
    arg,                \* input of the pure-function specifications
    ret                 \* their output

vars == <<available, session, db_connections, connections, metadata, history,
          sent, lastOp, arg, ret>>

-----------------------------------------------------------------------------
(* Bounds *)

MaxLen == 4         \* longest enumerated host string / query text
MaxHistory == 2     \* rows of DB_QUERY_HISTORY the query form of the query-tab specification lets accumulate
MaxLogged == 1      \* rows of DB_QUERY_HISTORY its quick-query buttons, and the other specifications, let accumulate
MaxRows == 1        \* most rows a driver returns to one query

-----------------------------------------------------------------------------
(* Text *)

\* Python's None; no text the model draws equals it.
None == <<"None">>

Txt(s) == <<s>>

\* Python truthiness of None / str, as used by all([...]) and `x or y`.
Truthy(x) == x # None /\ x # <<>>

Contains(s, c) == \E i \in 1..Len(s) : s[i] = c

IndexOf(s, c) ==
    CHOOSE i \in 1..Len(s) : s[i] = c /\ \A j \in 1..(i - 1) : s[j] # c

\* s.split(c, 1) when c occurs in s
SplitOnce(s, c) ==
    <<SubSeq(s, 1, IndexOf(s, c) - 1), SubSeq(s, IndexOf(s, c) + 1, Len(s))>>

Digits == {"0", "1", "2", "3", "4", "5", "6", "7", "8", "9"}

DigitVal(d) ==
    CASE d = "0" -> 0 [] d = "1" -> 1 [] d = "2" -> 2 [] d = "3" -> 3
      [] d = "4" -> 4 [] d = "5" -> 5 [] d = "6" -> 6 [] d = "7" -> 7
      [] d = "8" -> 8 [] d = "9" -> 9

\* int(s) succeeds: over the chunks the model draws (digits, ":", "/", letters)
\* that is a non-empty run of digits.
IsInt(s) == Len(s) > 0 /\ \A i \in 1..Len(s) : s[i] \in Digits

RECURSIVE IntOf(_)
IntOf(s) ==
    IF Len(s) = 0 THEN 0
    ELSE 10 * IntOf(SubSeq(s, 1, Len(s) - 1)) + DigitVal(s[Len(s)])

RECURSIVE Replace(_, _, _)
\* s.replace(c, r) for a one-character c
Replace(s, c, r) ==
    IF Len(s) = 0 THEN <<>>
    ELSE (IF Head(s) = c THEN r ELSE <<Head(s)>>) \o Replace(Tail(s), c, r)

RECURSIVE ReplacePair(_, _, _)
\* s.replace(c + c, r): leftmost non-overlapping occurrences of the pair
ReplacePair(s, c, r) ==
    IF Len(s) = 0 THEN <<>>
    ELSE IF Len(s) >= 2 /\ s[1] = c /\ s[2] = c
         THEN r \o ReplacePair(SubSeq(s, 3, Len(s)), c, r)
         ELSE <<Head(s)>> \o ReplacePair(Tail(s), c, r)

RECURSIVE StringsUpTo(_, _)
StringsUpTo(alphabet, n) ==
    IF n = 0 THEN {<<>>}
    ELSE LET shorter == StringsUpTo(alphabet, n - 1)
         IN  shorter \cup {Append(s, c) : s \in shorter, c \in alphabet}

-----------------------------------------------------------------------------
(* DatabaseConnector.connect_oracle: the host string *)

DefaultPort == 1521
DefaultService == Txt("ORCL")

\* the ValueError text of int(port), wrapped by connect_oracle's handler
IntError(port) ==
    <<"Oracle connection failed: ", "invalid literal for int() with base 10: ", "'">>
        \o port \o <<"'">>

\* the same parsing with the host split at its first ":" before the service
\* name is split off
ParseOracleHostColonFirst(host, port, service_name) ==
    IF Contains(host, "/")
    THEN IF Contains(host, ":")
         THEN LET h    == SplitOnce(host, ":")[1]
                  rest == SplitOnce(host, ":")[2]
                  p    == IF Contains(rest, "/") THEN SplitOnce(rest, "/")[1] ELSE rest
                  svc  == IF Contains(rest, "/") THEN SplitOnce(rest, "/")[2] ELSE <<>>
              IN  IF IsInt(p)
                  THEN [raised |-> FALSE, host |-> h, port |-> IntOf(p),
                        service_name |-> svc, message |-> <<>>]
                  ELSE [raised |-> TRUE, host |-> h, port |-> 0,
                        service_name |-> service_name, message |-> IntError(p)]
         ELSE [raised |-> FALSE, host |-> SplitOnce(host, "/")[1], port |-> DefaultPort,
               service_name |-> SplitOnce(host, "/")[2], message |-> <<>>]
    ELSE [raised |-> FALSE, host |-> host,
          port |-> IF port = 0 THEN DefaultPort ELSE port,
          service_name |-> IF Truthy(service_name) THEN service_name ELSE DefaultService,
          message |-> <<>>]

\* Lines 131-142: what is handed to cx_Oracle.makedsn, or the exception raised
\* on the way.
ParseOracleHost(host, port, service_name) ==
    IF Contains(host, "/")
    THEN LET host_port == SplitOnce(host, "/")[1]
             service   == SplitOnce(host, "/")[2]
         IN  IF Contains(host_port, ":")
             THEN LET h == SplitOnce(host_port, ":")[1]
                      p == SplitOnce(host_port, ":")[2]
                  IN  IF IsInt(p)
                      THEN [raised |-> FALSE, host |-> h, port |-> IntOf(p),
                            service_name |-> service, message |-> <<>>]
                      ELSE [raised |-> TRUE, host |-> h, port |-> 0,
                            service_name |-> service_name, message |-> IntError(p)]
             ELSE [raised |-> FALSE, host |-> host_port, port |-> DefaultPort,
                   service_name |-> service, message |-> <<>>]
    ELSE [raised |-> FALSE, host |-> host,
          port |-> IF port = 0 THEN DefaultPort ELSE port,
          service_name |-> IF Truthy(service_name) THEN service_name ELSE DefaultService,
          message |-> <<>>]


-----------------------------------------------------------------------------
(* The native drivers (cx_Oracle, pyodbc, simple_salesforce) *)

Kinds == {"JDE", "SAP", "Salesforce"}

\* The calls a Connector operation makes on a cursor-style driver (JDE, SAP)
\* and on the Salesforce client, in program order.  "fetch" is
\* cursor.fetchone() in test_connection and cursor.description followed by
\* cursor.fetchall() in execute_query.
CursorSteps == <<"connect", "cursor", "execute", "fetch", "cursor_close", "close">>
SalesforceSteps == <<"connect", "query">>

StepsOf(database_type) ==
    IF database_type = "Salesforce" THEN SalesforceSteps ELSE CursorSteps

\* The driver's behaviour during one operation: the call that raises ("none":
\* no call raises) and the number of rows the statement returns.
FailurePoints == {"none", "connect", "cursor", "execute", "fetch", "query",
                  "cursor_close", "close"}

Drivers == [fp : FailurePoints, rows : 0..MaxRows]

\* str(e) of the exception the driver raises in a call
DriverMessage(step) ==
    IF step = "connect"
    THEN <<"invalid username/password; logon denied">>
    ELSE <<"table ", "'", "T", "'", " does not exist">>

\* The calls made when the call `fp` raises: everything up to and including it.
CallsUntil(steps, fp) ==
    IF \E i \in 1..Len(steps) : steps[i] = fp
    THEN SubSeq(steps, 1, CHOOSE i \in 1..Len(steps) : steps[i] = fp)
    ELSE steps

Raises(steps, fp) == \E i \in 1..Len(steps) : steps[i] = fp

-----------------------------------------------------------------------------
(* DatabaseConnector.connect_* : [raised, message, native]                 *)
(* native: the driver's connect was called                                 *)

connect_oracle(host, port, service_name, username, password, drv) ==
    LET dsn == ParseOracleHost(host, port, service_name)
    IN  IF host = None
        THEN [raised |-> TRUE, native |-> FALSE,
              message |-> <<"Oracle connection failed: ",
                            "argument of type ", "'", "NoneType", "'", " is not iterable">>]
        ELSE IF dsn.raised
        THEN [raised |-> TRUE, message |-> dsn.message, native |-> FALSE]
        ELSE IF drv.fp = "connect"
        THEN [raised |-> TRUE, native |-> TRUE,
              message |-> <<"Oracle connection failed: ">> \o DriverMessage("connect")]
        ELSE [raised |-> FALSE, message |-> <<>>, native |-> TRUE]

connect_salesforce(username, password, security_token, drv) ==
    IF password = None \/ security_token = None
    THEN [raised |-> TRUE, native |-> FALSE,
          message |-> <<"Salesforce connection failed: ",
                        "can only concatenate str (not ", "\"", "NoneType", "\"", ") to str">>]
    ELSE IF drv.fp = "connect"
    THEN [raised |-> TRUE, native |-> TRUE,
          message |-> <<"Salesforce connection failed: ">> \o DriverMessage("connect")]
    ELSE [raised |-> FALSE, message |-> <<>>, native |-> TRUE]

connect_sap(host, port, username, password, drv) ==
    IF host = None
    THEN [raised |-> TRUE, native |-> FALSE,
          message |-> <<"SAP connection failed: ",
                        "argument of type ", "'", "NoneType", "'", " is not iterable">>]
    ELSE IF drv.fp = "connect"
    THEN [raised |-> TRUE, native |-> TRUE,
          message |-> <<"SAP connection failed: ">> \o DriverMessage("connect")]
    ELSE [raised |-> FALSE, message |-> <<>>, native |-> TRUE]

Connect(database_type, kwargs, drv) ==
    CASE database_type = "JDE" ->
           connect_oracle(kwargs.host, DefaultPort, None,
                          kwargs.username, kwargs.password, drv)
      [] database_type = "Salesforce" ->
           connect_salesforce(kwargs.username, kwargs.password,
                              kwargs.security_token, drv)
      [] database_type = "SAP" ->
           connect_sap(kwargs.host, 30015, kwargs.username, kwargs.password, drv)

-----------------------------------------------------------------------------
(* DatabaseConnector.test_connection / execute_query                       *)
(*                                                                         *)
(* An outcome records the value returned (success, message, rows,          *)
(* row_count), whether an exception left the operation (raised), and what  *)
(* the operation did to the driver: the calls made in order (calls), the   *)
(* number of connect_* invocations (connects), whether the driver handed   *)
(* back a connection (opened) and the number of conn.close() calls         *)
(* (closes).  exc: an exception was raised inside the try block, whatever  *)
(* became of it.  rows = -1: no table is returned.                         *)

Count(calls, c) == Cardinality({i \in 1..Len(calls) : calls[i] = c})

Outcome(success, message, rows, raised, calls, connects) ==
    [success |-> success, message |-> message, rows |-> rows,
     row_count |-> IF rows > 0 THEN rows ELSE 0,
     raised |-> raised, exc |-> raised, calls |-> calls, connects |-> connects,
     opened |-> Contains(calls, "connect")
                  /\ ~(calls[Len(calls)] = "connect" /\ raised),
     closes |-> Count(calls, "close")]

\* the try-block with the JDE branch taken for every kind that is neither
\* Salesforce nor SAP
TryBlockElseOracle(database_type, kwargs, drv, okMessage, withRows) ==
    LET kind  == IF database_type \in Kinds THEN database_type ELSE "JDE"
        c     == Connect(kind, kwargs, drv)
        steps == StepsOf(kind)
        calls == CallsUntil(steps, drv.fp)
    IN  IF c.raised
        THEN Outcome(FALSE, c.message, -1, TRUE,
                     IF c.native THEN <<"connect">> ELSE <<>>, 1)
        ELSE IF Raises(steps, drv.fp)
        THEN Outcome(FALSE, DriverMessage(drv.fp), -1, TRUE, calls, 1)
        ELSE Outcome(TRUE, okMessage, IF withRows THEN drv.rows ELSE -1,
                     FALSE, calls, 1)

\* The try-block of both operations, lines 177-217 and 225-297: connect, run
\* the statement, fetch, close.  An exception ends the block where it is
\* raised; raised = TRUE hands it to the except clause.
TryBlock(database_type, kwargs, drv, okMessage, withRows) ==
    IF database_type \notin Kinds
    THEN Outcome(FALSE, Txt("Unsupported database type"), -1, FALSE, <<>>, 0)
    ELSE LET c     == Connect(database_type, kwargs, drv)
             steps == StepsOf(database_type)
             calls == CallsUntil(steps, drv.fp)
         IN  IF c.raised
             THEN Outcome(FALSE, c.message, -1, TRUE,
                          IF c.native THEN <<"connect">> ELSE <<>>, 1)
             ELSE IF Raises(steps, drv.fp)
             THEN Outcome(FALSE, DriverMessage(drv.fp), -1, TRUE, calls, 1)
             ELSE Outcome(TRUE, okMessage, IF withRows THEN drv.rows ELSE -1,
                          FALSE, calls, 1)

\* test_connection without its except clause
test_connection_unguarded(database_type, kwargs, drv) ==
    TryBlock(database_type, kwargs, drv, Txt("Connection successful"), FALSE)

\* Lines 174-220.  except Exception as e: return False, str(e)
test_connection(database_type, kwargs, drv) ==
    LET r == TryBlock(database_type, kwargs, drv, Txt("Connection successful"), FALSE)
    IN  IF r.raised THEN [r EXCEPT !.raised = FALSE, !.success = FALSE] ELSE r

\* execute_query connecting a second time when the first connect raises
execute_query_retrying(database_type, query, kwargs, drv) ==
    LET r == TryBlock(database_type, kwargs, drv, <<>>, TRUE)
    IN  IF r.raised
        THEN [r EXCEPT !.raised = FALSE, !.success = FALSE,
                       !.message = <<"Query execution failed: ">> \o r.message,
                       !.connects = IF r.opened THEN 1 ELSE 2]
        ELSE r

\* Lines 222-300.  except Exception as e:
\*     return False, f"Query execution failed: {str(e)}", 0
execute_query(database_type, query, kwargs, drv) ==
    LET r == TryBlock(database_type, kwargs, drv, <<>>, TRUE)
    IN  IF r.raised
        THEN [r EXCEPT !.raised = FALSE, !.success = FALSE,
                       !.message = <<"Query execution failed: ">> \o r.message]
        ELSE r

-----------------------------------------------------------------------------
(* What the user types and what the environment does *)

PoolInputs == {<<>>, Txt("p1"), Txt("p2")}

\* "10.1.1.1:1521/ORCLPDB" and a host string with two colons
HostWithService == <<"10.1.1.1", ":", "1", "5", "2", "1", "/", "ORCLPDB">>
HostTwoColons == <<"h", ":", "1", ":", "2", "/", "S">>
HostInputs == {<<>>, HostWithService}

UserInputs == {<<>>, Txt("u")}

\* The backends accept the password "good" and no other.
GoodPassword == Txt("good")
PasswordInputs == {<<>>, GoodPassword, Txt("bad")}

TokenInputs == {<<>>, Txt("tok")}

\* The connection form of tab 1, lines 365-405: Salesforce has a token field
\* and no host field, the other kinds a host field and no token field.
Forms ==
    {f \in [pool_name : PoolInputs, database_type : Kinds,
            host_input : HostInputs \cup {None}, username : UserInputs,
            password : PasswordInputs, security_token : TokenInputs \cup {None}] :
        IF f.database_type = "Salesforce"
        THEN f.host_input = None /\ f.security_token # None
        ELSE f.host_input # None /\ f.security_token = None}

\* "SELECT * FROM T WHERE NAME = 'X'"
QuotedQuery == <<"SELECT * FROM T WHERE NAME = ", "'", "X", "'">>
QueryInputs == {<<>>, QuotedQuery}

\* The driver behaviours possible for one operation with these credentials:
\* a backend refuses a connection with a password it does not accept; every
\* other call may raise or not.
DriversFor(database_type, kwargs) ==
    {d \in Drivers :
        /\ d.fp \in {"none"} \cup {StepsOf(database_type)[i] :
                                     i \in 1..Len(StepsOf(database_type))}
        /\ (kwargs.password # GoodPassword => d.fp = "connect")
        /\ (d.fp # "none" => d.rows = 0)}

-----------------------------------------------------------------------------
(* DATABASE_CONFIGS, lines 35-76 *)

\* the "has_token" entry of each kind's configuration, lines 45, 58 and 72
has_token(database_type) ==
    CASE database_type = "JDE" -> FALSE
      [] database_type = "SAP" -> FALSE
      [] database_type = "Salesforce" -> TRUE

sample_query(database_type) ==
    CASE database_type = "JDE" -> Txt("SELECT * FROM TESTDTA.F0101 WHERE ROWNUM <= 5")
      [] database_type = "SAP" -> Txt("SELECT TOP 5 * FROM MARA")
      [] database_type = "Salesforce" -> Txt("SELECT Id, Name FROM Account LIMIT 5")

main_table(database_type) ==
    CASE database_type = "JDE" -> "TESTDTA.F574211"
      [] database_type = "SAP" -> "MARA"
      [] database_type = "Salesforce" -> "Account"

-----------------------------------------------------------------------------
(* The metadata store: statements built for session.sql and their effect *)

\* f(k) = v added to, or replacing it in, the mapping f
Put(f, k, v) == [x \in DOMAIN f \cup {k} |-> IF x = k THEN v ELSE f[x]]

EmptyMap == [x \in {} |-> <<>>]

\* `host or 'salesforce.com'`
HostOrDefault(host) == IF Truthy(host) THEN host ELSE Txt("salesforce.com")

\* a MERGE statement that also carries the password
MergeStatementWithPassword(pool_name, database_type, host, username, password, security_token) ==
    [op |-> "MERGE", table |-> "DB_CONNECTION_METADATA",
     values |-> [pool_name |-> pool_name, database_type |-> Txt(database_type),
                 host |-> HostOrDefault(host), username |-> username,
                 password |-> password, status |-> Txt("active")]]

\* Lines 475-495: the MERGE statement, as the texts interpolated into it
MergeStatement(pool_name, database_type, host, username, password, security_token) ==
    [op |-> "MERGE", table |-> "DB_CONNECTION_METADATA",
     values |-> [pool_name |-> pool_name, database_type |-> Txt(database_type),
                 host |-> HostOrDefault(host), username |-> username,
                 status |-> Txt("active")]]

\* the text embedded as it is
EscapeNothing(text) == text

\* query_text.replace("'", "''"), lines 659, 675 and 676
Escape(text) == Replace(text, "'", <<"'", "'">>)

\* The value of a quoted SQL literal: a doubled quote inside it is one quote.
LiteralValue(escaped) == ReplacePair(escaped, "'", <<"'">>)

\* '{text}' is one SQL literal: every quote in text is half of a doubled
\* quote.  A text with a quote left over ends the literal early and leaves
\* the statement malformed.
WellQuoted(text) == ~Contains(ReplacePair(text, "'", <<>>), "'")

\* Lines 660-664 and 677-681: the INSERT statement of a query's history row.
\* result is the error message of a failed query.  pool_name is embedded
\* as it is.
InsertStatement(pool_name, query_text, success, result, row_count) ==
    [op |-> "INSERT", table |-> "DB_QUERY_HISTORY",
     values |-> [pool_name |-> pool_name, query_text |-> Escape(query_text),
                 success |-> success,
                 error_message |-> IF success THEN None ELSE Escape(result),
                 row_count |-> IF success THEN row_count ELSE 0]]

\* The store cannot parse the statement: a text embedded in it is not one
\* literal.
Malformed(stmt) ==
    \E k \in DOMAIN stmt.values \ {"success", "row_count"} :
        ~WellQuoted(stmt.values[k])

\* The row MERGE leaves under the statement's pool_name (WHEN MATCHED updates
\* the same columns that WHEN NOT MATCHED inserts): the values of the
\* literals in the statement.
MergedRow(stmt) ==
    [database_type |-> LiteralValue(stmt.values.database_type),
     host |-> LiteralValue(stmt.values.host),
     username |-> LiteralValue(stmt.values.username),
     status |-> LiteralValue(stmt.values.status)]

\* A statement passed to session.sql(...).collect(), and whether that raised.
Sent(stmt, accepted) == [stmt |-> stmt, raised |-> ~accepted]

\* The row INSERT appends.
InsertedRow(stmt) ==
    [pool_name |-> LiteralValue(stmt.values.pool_name),
     query_text |-> LiteralValue(stmt.values.query_text),
     success |-> stmt.values.success,
     error_message |-> IF stmt.values.error_message = None THEN None
                       ELSE LiteralValue(stmt.values.error_message),
     row_count |-> stmt.values.row_count]

\* DB_CONNECTION_METADATA after a MERGE, DB_QUERY_HISTORY after an INSERT
StoreMerge(table, stmt) ==
    Put(table, LiteralValue(stmt.values.pool_name), MergedRow(stmt))

\* an INSERT that leaves only its own row in the table
StoreInsertReplacing(table, stmt) == <<InsertedRow(stmt)>>

StoreInsert(table, stmt) == Append(table, InsertedRow(stmt))

-----------------------------------------------------------------------------------------------------------------------------------------------------
(* Handlers *)

\* What a handler gets back from a Connector operation: the returned tuple.
\* connects stays with it: the number of connect_* invocations made for it.
Returned(outcome) ==
    [success |-> outcome.success, message |-> outcome.message,
     rows |-> outcome.rows, row_count |-> outcome.row_count,
     connects |-> outcome.connects]

NoOutcome == Returned(Outcome(FALSE, <<>>, -1, FALSE, <<>>, 0))

\* lastOp: the handler that ran, on which kind and pool, whether the form it
\* was submitted with had a required field blank (blank), whether it called
\* the Connector (invoked) and what came back (result), the query text,
\* whether it wrote the registry (stored), the record it wrote (record) and
\* the kind of the record it replaced there (previous).
NoRecord == [database_type |-> "none"]

Start ==
    [handler |-> "start", database_type |-> "JDE", pool_name |-> <<>>,
     blank |-> FALSE, invoked |-> FALSE, result |-> NoOutcome, query |-> <<>>,
     stored |-> FALSE, record |-> NoRecord, previous |-> "none"]

\* the check of the Save button without the password
RequiredBlankButPassword(form) ==
    IF form.database_type = "Salesforce"
    THEN ~(Truthy(form.pool_name) /\ Truthy(form.username)
            /\ Truthy(form.security_token))
    ELSE ~(Truthy(form.pool_name) /\ Truthy(form.host_input)
            /\ Truthy(form.username))

\* not all([pool_name, username, password, security_token]) for Salesforce,
\* not all([pool_name, host_input, username, password]) otherwise
RequiredBlank(form) ==
    IF form.database_type = "Salesforce"
    THEN ~(Truthy(form.pool_name) /\ Truthy(form.username)
            /\ Truthy(form.password) /\ Truthy(form.security_token))
    ELSE ~(Truthy(form.pool_name) /\ Truthy(form.host_input)
            /\ Truthy(form.username) /\ Truthy(form.password))

\* Lines 450-455 and 616-624: the credential bag handed to the Connector.
\* A key the code does not set is None here; the Connector reads only the
\* keys set for the kind.
Kwargs(database_type, host, username, password, security_token) ==
    [username |-> username, password |-> password,
     host |-> IF database_type = "Salesforce" THEN None ELSE host,
     security_token |-> IF database_type = "Salesforce" THEN security_token ELSE None]

\* Lines 446-467
test_database_connection(database_type, host, username, password, security_token, drv) ==
    test_connection(database_type,
                    Kwargs(database_type, host, username, password, security_token),
                    drv)

\* The "Test <kind> Connection" button of the connection form, lines 423-424.
SubmitTest(form, drv) ==
    /\ lastOp' =
         IF available[form.database_type]
         THEN [Start EXCEPT !.handler = "test",
                 !.database_type = form.database_type,
                 !.blank = RequiredBlank(form), !.invoked = TRUE,
                 !.result = Returned(test_database_connection(form.database_type,
                     form.host_input, form.username, form.password,
                     form.security_token, drv))]
         ELSE [Start EXCEPT !.handler = "test",
                 !.database_type = form.database_type,
                 !.blank = RequiredBlank(form)]
    /\ sent' = <<>>
    /\ UNCHANGED <<available, session, db_connections, connections, metadata,
                   history, arg, ret>>

\* the record with its security_token key set whatever the token is
connection_info_with_token_key(database_type, host, username, password, security_token) ==
    [database_type |-> database_type, host |-> HostOrDefault(host),
     username |-> username, password |-> password, status |-> Txt("active"),
     security_token |-> security_token]

\* Lines 501-510: the record kept in st.session_state.db_connections
connection_info(database_type, host, username, password, security_token) ==
    LET info == [database_type |-> database_type, host |-> HostOrDefault(host),
                 username |-> username, password |-> password,
                 status |-> Txt("active")]
    IN  IF Truthy(security_token)
        THEN Put(info, "security_token", security_token)
        ELSE info

\* the new fields written into the record already kept under pool_name
RegisterMerging(registry, pool_name, info) ==
    IF pool_name \in DOMAIN registry
    THEN Put(registry, pool_name,
             [k \in DOMAIN registry[pool_name] \cup DOMAIN info |->
                 IF k \in DOMAIN info THEN info[k] ELSE registry[pool_name][k]])
    ELSE Put(registry, pool_name, info)

\* Line 512: st.session_state.db_connections[pool_name] = connection_info
Register(registry, pool_name, info) == Put(registry, pool_name, info)

\* the Save button without the test of config["available"]
SubmitSaveUngated(form, storeOk) ==
    LET valid == ~RequiredBlank(form)
        host  == IF form.database_type = "Salesforce" THEN None ELSE form.host_input
        stmt  == MergeStatement(form.pool_name, form.database_type, host,
                                form.username, form.password, form.security_token)
        accepted == storeOk /\ ~Malformed(stmt)
        saved == valid /\ (session => accepted)
        info  == connection_info(form.database_type, host, form.username,
                                 form.password, form.security_token)
    IN  /\ (~(valid /\ session) => storeOk)
        /\ sent' = IF valid /\ session THEN <<Sent(stmt, accepted)>> ELSE <<>>
        /\ metadata' = IF valid /\ session /\ accepted
                       THEN StoreMerge(metadata, stmt)
                       ELSE metadata
        /\ db_connections' =
             IF saved
             THEN Register(db_connections, form.pool_name, info)
             ELSE db_connections
        /\ lastOp' = [Start EXCEPT !.handler = "save",
                        !.database_type = form.database_type,
                        !.pool_name = form.pool_name,
                        !.blank = RequiredBlank(form), !.stored = saved,
                        !.record = IF saved THEN info ELSE NoRecord,
                        !.previous = IF saved /\ form.pool_name \in DOMAIN db_connections
                                     THEN db_connections[form.pool_name].database_type
                                     ELSE "none"]
        /\ UNCHANGED <<available, session, connections, history, arg, ret>>

\* The "Save <kind> Connection" button, lines 426-436, and
\* save_database_connection, lines 469-530.  storeOk: the store is able to
\* run the MERGE statement, when one is sent; the statement raises when the
\* store is not, or cannot parse it.
SubmitSave(form, storeOk) ==
    LET valid == available[form.database_type] /\ ~RequiredBlank(form)
        host  == IF form.database_type = "Salesforce" THEN None ELSE form.host_input
        stmt  == MergeStatement(form.pool_name, form.database_type, host,
                                form.username, form.password, form.security_token)
        accepted == storeOk /\ ~Malformed(stmt)
        saved == valid /\ (session => accepted)
        info  == connection_info(form.database_type, host, form.username,
                                 form.password, form.security_token)
    IN  /\ (~(valid /\ session) => storeOk)
        /\ sent' = IF valid /\ session THEN <<Sent(stmt, accepted)>> ELSE <<>>
        /\ metadata' = IF valid /\ session /\ accepted
                       THEN StoreMerge(metadata, stmt)
                       ELSE metadata
        /\ db_connections' =
             IF saved
             THEN Register(db_connections, form.pool_name, info)
             ELSE db_connections
        /\ lastOp' = [Start EXCEPT !.handler = "save",
                        !.database_type = form.database_type,
                        !.pool_name = form.pool_name,
                        !.blank = RequiredBlank(form), !.stored = saved,
                        !.record = IF saved THEN info ELSE NoRecord,
                        !.previous = IF saved /\ form.pool_name \in DOMAIN db_connections
                                     THEN db_connections[form.pool_name].database_type
                                     ELSE "none"]
        /\ UNCHANGED <<available, session, connections, history, arg, ret>>

\* conn_info.get('security_token', '') / conn_info.get('security_token')
GetToken(conn_info, default) ==
    IF "security_token" \in DOMAIN conn_info THEN conn_info.security_token ELSE default

\* execute_database_query, lines 608-688.  storeOk: the store is able to
\* run the INSERT statement, when one is sent; the statement raises when the
\* store is not, or cannot parse it.
execute_database_query(pool_name, query_text, drv, storeOk) ==
    LET conn_info == db_connections[pool_name]
        database_type == conn_info.database_type
        kwargs == Kwargs(database_type, conn_info.host, conn_info.username,
                         conn_info.password, GetToken(conn_info, <<>>))
        r == execute_query(database_type, query_text, kwargs, drv)
        stmt == InsertStatement(pool_name, query_text, r.success, r.message, r.row_count)
        accepted == storeOk /\ ~Malformed(stmt)
    IN  /\ drv \in DriversFor(database_type, kwargs)
        /\ (~session => storeOk)
        /\ sent' = IF session THEN <<Sent(stmt, accepted)>> ELSE <<>>
        /\ history' = IF session /\ accepted
                      THEN StoreInsert(history, stmt)
                      ELSE history
        /\ lastOp' = [Start EXCEPT !.handler = "query",
                        !.database_type = database_type, !.pool_name = pool_name,
                        !.invoked = TRUE, !.result = Returned(r),
                        !.query = query_text]
        /\ UNCHANGED <<available, session, db_connections, connections, metadata,
                       arg, ret>>

\* The three quick-query buttons of tab 2, lines 557-580
QuickQueryText(button, database_type) ==
    CASE button = "test" ->
           (CASE database_type = "JDE" -> Txt("SELECT 1 FROM DUAL")
              [] database_type = "SAP" -> Txt("SELECT 1 FROM SYS.DUMMY")
              [] database_type = "Salesforce" -> Txt("SELECT Id FROM Account LIMIT 1"))
      [] button = "sample" -> sample_query(database_type)
      [] button = "count" ->
           IF database_type = "Salesforce"
           THEN <<"SELECT COUNT() FROM ", main_table(database_type)>>
           ELSE <<"SELECT COUNT(*) as RECORD_COUNT FROM ", main_table(database_type)>>

QuickQuery(selected_pool, button, drv, storeOk) ==
    /\ selected_pool \in DOMAIN db_connections
    /\ execute_database_query(selected_pool,
           QuickQueryText(button, db_connections[selected_pool].database_type),
           drv, storeOk)

\* The query form of tab 2, lines 583-606
SubmitQuery(selected_pool, query_text, drv, storeOk) ==
    /\ selected_pool \in DOMAIN db_connections
    /\ IF Truthy(query_text)
       THEN execute_database_query(selected_pool, query_text, drv, storeOk)
       ELSE /\ drv = [fp |-> "none", rows |-> 0] /\ storeOk
            /\ lastOp' = [Start EXCEPT !.handler = "query",
                            !.database_type = db_connections[selected_pool].database_type,
                            !.pool_name = selected_pool, !.blank = TRUE]
            /\ sent' = <<>>
            /\ UNCHANGED <<available, session, db_connections, connections,
                           metadata, history, arg, ret>>

\* the per-pool test button writing the test's outcome into the record's status
StatusTestMarking(pool_name, drv) ==
    /\ pool_name \in DOMAIN db_connections
    /\ LET conn_info == db_connections[pool_name]
           r == test_database_connection(conn_info.database_type, conn_info.host,
                    conn_info.username, conn_info.password,
                    GetToken(conn_info, None), drv)
       IN  /\ drv \in DriversFor(conn_info.database_type,
                        Kwargs(conn_info.database_type, conn_info.host,
                               conn_info.username, conn_info.password,
                               GetToken(conn_info, None)))
           /\ lastOp' = [Start EXCEPT !.handler = "status_test",
                  !.database_type = conn_info.database_type,
                  !.pool_name = pool_name, !.invoked = TRUE,
                  !.result = Returned(r)]
           /\ db_connections' =
                [db_connections EXCEPT ![pool_name].status =
                    IF r.success THEN Txt("active") ELSE Txt("failed")]
    /\ sent' = <<>>
    /\ UNCHANGED <<available, session, connections, metadata, history, arg, ret>>

\* The "Test <pool>" button of tab 3, lines 710-719
StatusTest(pool_name, drv) ==
    /\ pool_name \in DOMAIN db_connections
    /\ LET conn_info == db_connections[pool_name]
       IN  /\ drv \in DriversFor(conn_info.database_type,
                        Kwargs(conn_info.database_type, conn_info.host,
                               conn_info.username, conn_info.password,
                               GetToken(conn_info, None)))
           /\ lastOp' = [Start EXCEPT !.handler = "status_test",
                  !.database_type = conn_info.database_type,
                  !.pool_name = pool_name, !.invoked = TRUE,
                  !.result = Returned(test_database_connection(
                      conn_info.database_type, conn_info.host, conn_info.username,
                      conn_info.password, GetToken(conn_info, None), drv))]
    /\ sent' = <<>>
    /\ UNCHANGED <<available, session, db_connections, connections, metadata,
                   history, arg, ret>>

-----
(* The session *)

AllAvailable == [k \in Kinds |-> TRUE]
SapMissing == [k \in Kinds |-> k # "SAP"]

\* A fresh session: nothing saved, the metadata tables empty.
Init ==
    /\ available \in {AllAvailable, SapMissing}
    /\ session \in BOOLEAN
    /\ db_connections = EmptyMap
    /\ connections = EmptyMap
    /\ metadata = EmptyMap
    /\ history = <<>>
    /\ sent = <<>>
    /\ lastOp = Start
    /\ arg = <<>>
    /\ ret = <<>>

FormsOver(pools) == {f \in Forms : f.pool_name \in pools}

Buttons == {"test", "sample", "count"}

\* Tab 1: the connection form
ConnectionTab(pools) ==
    \/ \E form \in FormsOver(pools) :
         \E drv \in DriversFor(form.database_type,
                      Kwargs(form.database_type, form.host_input, form.username,
                             form.password, form.security_token)) :
           SubmitTest(form, drv)
    \/ \E form \in FormsOver(pools), storeOk \in BOOLEAN : SubmitSave(form, storeOk)

\* Tab 2: the quick-query buttons and the query form, while the history
\* table holds fewer than cap rows
QuickQueries(buttons, cap) ==
    /\ Len(history) < cap
    /\ \E pool \in DOMAIN db_connections, button \in buttons,
          drv \in Drivers, storeOk \in BOOLEAN :
         QuickQuery(pool, button, drv, storeOk)

QueryForm(cap) ==
    /\ Len(history) < cap
    /\ \E pool \in DOMAIN db_connections, text \in QueryInputs, drv \in Drivers,
          storeOk \in BOOLEAN :
         SubmitQuery(pool, text, drv, storeOk)

\* Tab 3: the per-pool test button
StatusTab ==
    \E pool \in DOMAIN db_connections, drv \in Drivers : StatusTest(pool, drv)

\* The three tabs with one pool name in use and, on tab 2, the query form.
Next ==
    \/ ConnectionTab({Txt("p1")})
    \/ QueryForm(MaxLogged)
    \/ StatusTab

Spec == Init /\ [][Next]_vars

\* Tabs 1 and 3 with every pool name.
NextRegistry ==
    \/ ConnectionTab(PoolInputs)
    \/ StatusTab

SpecRegistry == Init /\ [][NextRegistry]_vars

-----------------------------------------------------------------------------
(* The query tab on a session in which connections have been saved *)

\* The registry and the metadata rows after the Save button was pressed with
\* each of these forms in turn, every MERGE succeeding.
RECURSIVE RegistryAfter(_)
RegistryAfter(forms) ==
    IF Len(forms) = 0 THEN EmptyMap
    ELSE LET f == forms[Len(forms)]
         IN  Register(RegistryAfter(SubSeq(forms, 1, Len(forms) - 1)), f.pool_name,
                 connection_info(f.database_type,
                     IF f.database_type = "Salesforce" THEN None ELSE f.host_input,
                     f.username, f.password, f.security_token))

RECURSIVE MetadataAfter(_)
MetadataAfter(forms) ==
    IF Len(forms) = 0 THEN EmptyMap
    ELSE LET f == forms[Len(forms)]
         IN  StoreMerge(MetadataAfter(SubSeq(forms, 1, Len(forms) - 1)),
                 MergeStatement(f.pool_name, f.database_type,
                     IF f.database_type = "Salesforce" THEN None ELSE f.host_input,
                     f.username, f.password, f.security_token))

SavedForms == {f \in FormsOver({Txt("p1")}) : ~RequiredBlank(f)}

InitQuery ==
    /\ available = AllAvailable
    /\ session \in BOOLEAN
    /\ \E f \in SavedForms :
         /\ db_connections = RegistryAfter(<<f>>)
         /\ metadata = IF session THEN MetadataAfter(<<f>>) ELSE EmptyMap
    /\ connections = EmptyMap
    /\ history = <<>>
    /\ sent = <<>>
    /\ lastOp = Start
    /\ arg = <<>>
    /\ ret = <<>>

\* The quick-query buttons while the history table holds fewer than
\* MaxLogged rows, the query form while it holds fewer than MaxHistory.
NextQuery ==
    \/ QuickQueries(Buttons, MaxLogged)
    \/ QueryForm(MaxHistory)

SpecQuery == InitQuery /\ [][NextQuery]_vars

-----------------------------------------------------------------------------
(* Saves and queries with pool names and usernames that contain quotes *)

\* "p''q", "p'q" and "o''b"
PairedQuotePool == <<"p", "'", "'", "q">>
LoneQuotePool == <<"p", "'", "q">>
PairedQuoteUser == <<"o", "'", "'", "b">>

NamedPools == {PairedQuotePool, LoneQuotePool}

\* The connection form filled in completely, lines 365-405
NamedForms ==
    {f \in [pool_name : NamedPools, database_type : {"JDE", "Salesforce"},
            host_input : {HostWithService, None},
            username : {Txt("u"), PairedQuoteUser},
            password : {GoodPassword}, security_token : {Txt("tok"), None}] :
        IF f.database_type = "Salesforce"
        THEN f.host_input = None /\ f.security_token # None
        ELSE f.host_input # None /\ f.security_token = None}

\* The Save button of tab 1 and the query form of tab 2
NextNames ==
    \/ \E form \in NamedForms, storeOk \in BOOLEAN : SubmitSave(form, storeOk)
    \/ QueryForm(MaxLogged)

SpecNames == Init /\ [][NextNames]_vars

-----------------------------------------------------------------------------
(* The Connector called directly, with any kind and any credential bag *)

HostNoService == <<"10.1.1.1", ":", "1", "5", "2", "1">>
ConnectorHosts ==
    {<<>>, HostWithService, HostNoService, HostTwoColons, <<"h", "/", "S">>, None}

CredentialBags ==
    [host : ConnectorHosts, username : UserInputs, password : PasswordInputs,
     security_token : TokenInputs \cup {None}]

CallTest(database_type, kwargs, drv) ==
    /\ arg' = kwargs
    /\ lastOp' = [Start EXCEPT !.handler = "call_test",
                    !.database_type = database_type, !.invoked = TRUE,
                    !.result = test_connection(database_type, kwargs, drv)]
    /\ UNCHANGED <<available, session, db_connections, connections, metadata,
                   history, sent, ret>>

CallExecute(database_type, query, kwargs, drv) ==
    /\ arg' = kwargs
    /\ lastOp' = [Start EXCEPT !.handler = "call_execute",
                    !.database_type = database_type, !.invoked = TRUE,
                    !.result = execute_query(database_type, query, kwargs, drv),
                    !.query = query]
    /\ UNCHANGED <<available, session, db_connections, connections, metadata,
                   history, sent, ret>>

InitConnector ==
    /\ available = AllAvailable
    /\ session = FALSE
    /\ db_connections = EmptyMap
    /\ connections = EmptyMap
    /\ metadata = EmptyMap
    /\ history = <<>>
    /\ sent = <<>>
    /\ lastOp = Start
    /\ arg = <<>>
    /\ ret = <<>>

NextConnector ==
    \/ \E database_type \in Kinds \cup {"Other"}, kwargs \in CredentialBags :
         \E drv \in DriversFor(database_type, kwargs) :
           CallTest(database_type, kwargs, drv)
    \/ \E database_type \in Kinds \cup {"Other"}, kwargs \in CredentialBags :
         \E drv \in DriversFor(database_type, kwargs) :
           CallExecute(database_type, QuotedQuery, kwargs, drv)

SpecConnector == InitConnector /\ [][NextConnector]_vars

-----------------------------------------------------------------------------
(* connect_oracle's host parsing and the quoting of a history statement,   *)
(* applied to every short text                                             *)

HostStrings ==
    StringsUpTo({"h", ":", "/", "7"}, MaxLen) \cup {HostWithService, HostNoService}

QueryStrings == StringsUpTo({"'", "a", " "}, MaxLen) \cup {QuotedQuery}

InitPure ==
    /\ available = AllAvailable
    /\ session = FALSE
    /\ db_connections = EmptyMap
    /\ connections = EmptyMap
    /\ metadata = EmptyMap
    /\ history = <<>>
    /\ sent = <<>>
    /\ lastOp = Start
    /\ arg = <<>>
    /\ ret = [done |-> FALSE]

\* connect_oracle as test_connection and execute_query call it: port 1521,
\* no service_name
ParseHost(host) ==
    /\ arg' = host
    /\ ret' = [done |-> TRUE, dsn |-> ParseOracleHost(host, DefaultPort, None)]
    /\ UNCHANGED <<available, session, db_connections, connections, metadata,
                   history, sent, lastOp>>

SpecParse == InitPure /\ [][\E host \in HostStrings : ParseHost(host)]_vars

\* The history statement of a query whose text, and whose error message, is
\* the given text, and the row the store keeps for it.
QuoteQuery(text, success) ==
    /\ arg' = text
    /\ ret' = LET stmt == InsertStatement(Txt("p1"), text, success, text, 0)
              IN  [done |-> TRUE, stmt |-> stmt, row |-> InsertedRow(stmt)]
    /\ UNCHANGED <<available, session, db_connections, connections, metadata,
                   history, sent, lastOp>>

SpecQuote ==
    InitPure /\ [][\E text \in QueryStrings, success \in BOOLEAN :
                      QuoteQuery(text, success)]_vars

-----------------------------------------------------------------------------
(* Claims about the Connector, checked under SpecConnector *)

ConnectorRan == lastOp.invoked /\ lastOp.handler \in {"call_test", "call_execute"}

\* C1: when test_connection or execute_query returns, either the driver
\* handed back no connection or the connection was closed exactly once.
C1_NoConnectionLeftOpen ==
    ConnectorRan => (lastOp.result.opened => lastOp.result.closes = 1)

\* C2: no exception leaves a Connector operation; when one is raised inside
\* it (by the host parsing or by the driver's connect, execute or fetch),
\* test_connection returns (False, message) and execute_query returns
\* (False, message, 0).
C2_NoErrorEscapes ==
    ConnectorRan =>
        /\ ~lastOp.result.raised
        /\ lastOp.result.exc =>
             /\ ~lastOp.result.success
             /\ lastOp.result.message # <<>>
             /\ lastOp.result.rows = -1
             /\ lastOp.result.row_count = 0

\* a host string with two colons fails inside test_connection and comes back
\* as (False, message)
C2_Witness ==
    /\ lastOp.handler = "call_test"
    /\ lastOp.database_type = "JDE"
    /\ arg.host = HostTwoColons
    /\ lastOp.result.exc
    /\ ~lastOp.result.success
    /\ lastOp.result.message = IntError(<<"1", ":", "2">>)

\* C10: an operation on a supported kind calls connect_* exactly once, the
\* driver's connect at most once and before every other driver call, and
\* the Connector's connections map stays empty.
C10_NoPoolingNoRetry ==
    /\ connections = EmptyMap
    /\ (ConnectorRan /\ lastOp.database_type \in Kinds) =>
         /\ lastOp.result.connects = 1
         /\ Count(lastOp.result.calls, "connect") <= 1
         /\ lastOp.result.calls # <<>> => lastOp.result.calls[1] = "connect"

\* execute_query whose connect was refused: one attempt, nothing else called
C10_Witness ==
    /\ lastOp.handler = "call_execute"
    /\ lastOp.database_type = "SAP"
    /\ arg.password # GoodPassword
    /\ ~lastOp.result.success
    /\ lastOp.result.calls = <<"connect">>
    /\ lastOp.result.connects = 1
    /\ connections = EmptyMap

\* C13: for a kind that is none of JDE, SAP and Salesforce, test_connection
\* returns (False, "Unsupported database type") and execute_query returns
\* (False, "Unsupported database type", 0); no connect_* helper and no
\* driver call is made, no connection is opened and no exception is raised.
C13_UnsupportedKindRejected ==
    (ConnectorRan /\ lastOp.database_type \notin Kinds) =>
        /\ ~lastOp.result.success
        /\ lastOp.result.message = Txt("Unsupported database type")
        /\ lastOp.result.rows = -1
        /\ lastOp.result.row_count = 0
        /\ lastOp.result.calls = <<>>
        /\ lastOp.result.connects = 0
        /\ ~lastOp.result.opened
        /\ ~lastOp.result.exc
        /\ connections = EmptyMap

\* execute_query has been called with a kind outside the three, with
\* credentials a backend would accept
C13_Witness ==
    /\ lastOp.handler = "call_execute"
    /\ lastOp.database_type = "Other"
    /\ arg.host = HostWithService
    /\ arg.password = GoodPassword
    /\ lastOp.result.message = Txt("Unsupported database type")
    /\ lastOp.result.connects = 0

-----------------------------------------------------------------------------
(* Claims about the query tab, checked under SpecQuery *)

\* the step ran a query against a saved pool
QueryStep == lastOp'.handler = "query" /\ lastOp'.invoked

-----------------------------------------------------------------------------
(* Claims about pure functions, checked under SpecParse and SpecQuote *)

\* the position of the first c in s
IsFirst(s, i, c) == i \in 1..Len(s) /\ s[i] = c /\ \A j \in 1..(i - 1) : s[j] # c

\* C8: for a host string containing "/", the text after the first "/" is
\* the service name; of the text before it, the part before the first ":"
\* is the host and the part after it, read as a number, the port (1521
\* without a ":"; a port that is no number raises).  For a host string
\* without "/" the service name is the default, ORCL.
C8_OracleHostParsing ==
    ret.done =>
        /\ \A i \in 1..Len(arg) : IsFirst(arg, i, "/") =>
             LET host_port == SubSeq(arg, 1, i - 1)
             IN  /\ ret.dsn.raised \/ ret.dsn.service_name = SubSeq(arg, i + 1, Len(arg))
                 /\ \A k \in 1..Len(host_port) : IsFirst(host_port, k, ":") =>
                      /\ ret.dsn.host = SubSeq(host_port, 1, k - 1)
                      /\ ret.dsn.raised = ~IsInt(SubSeq(host_port, k + 1, Len(host_port)))
                      /\ ~ret.dsn.raised =>
                           ret.dsn.port = IntOf(SubSeq(host_port, k + 1, Len(host_port)))
                 /\ ~Contains(host_port, ":") =>
                      /\ ~ret.dsn.raised
                      /\ ret.dsn.host = host_port
                      /\ ret.dsn.port = 1521
        /\ ~Contains(arg, "/") =>
             /\ ~ret.dsn.raised
             /\ ret.dsn.service_name = Txt("ORCL")
        /\ arg = HostWithService =>
             ret.dsn = [raised |-> FALSE, host |-> Txt("10.1.1.1"), port |-> 1521,
                        service_name |-> Txt("ORCLPDB"), message |-> <<>>]
        /\ arg = <<"h", ":", "7", "7", "/", "h">> => ret.dsn.port = 77

\* "10.1.1.1:1521/ORCLPDB" has been parsed
C8_Witness ==
    /\ ret.done
    /\ arg = HostWithService
    /\ ret.dsn.service_name = Txt("ORCLPDB")

\* the number of quotes among the first n chunks of s
QuotesBefore(s, n) == Cardinality({j \in 1..n : s[j] = "'"})

\* e is s with every quote written twice
Doubled(s, e) ==
    /\ Len(e) = Len(s) + QuotesBefore(s, Len(s))
    /\ \A i \in 1..Len(s) :
         LET k == i + QuotesBefore(s, i - 1)
         IN  /\ e[k] = s[i]
             /\ s[i] = "'" => e[k + 1] = "'"

\* C9: the query text embedded in the history statement is the query text
\* with every single quote doubled, and the literal read back (two quotes
\* as one) is the original query text.
C9_QuotingRoundTrips ==
    ret.done =>
        /\ Doubled(arg, ret.stmt.values.query_text)
        /\ ret.row.query_text = arg

\* the statement of "SELECT * FROM T WHERE NAME = 'X'" has been built
C9_Witness ==
    /\ ret.done
    /\ arg = QuotedQuery
    /\ ret.stmt.values.query_text =
         <<"SELECT * FROM T WHERE NAME = ", "'", "'", "X", "'", "'">>

-----------------------------------------------------------------------------
(* Claims about the connection registry, checked under SpecRegistry *)

\* the step is a Save that wrote the registry
SaveStep == lastOp'.handler = "save" /\ lastOp'.stored

\* C4: after a record is registered under pool name P, looking P up gives
\* exactly that record, with the kind and host that were submitted and no
\* field left from a record registered under P before; the records under
\* the other pool names are as they were.
C4_RegistryLastWriteWins ==
    [][SaveStep =>
         LET P == lastOp'.pool_name
         IN  /\ P \in DOMAIN db_connections'
             /\ db_connections'[P] = lastOp'.record
             /\ db_connections'[P].database_type = lastOp'.database_type
             /\ db_connections'[P].host =
                  (IF lastOp'.database_type = "Salesforce"
                   THEN Txt("salesforce.com") ELSE HostWithService)
             /\ "security_token" \in DOMAIN db_connections'[P]
                  => lastOp'.database_type = "Salesforce"
             /\ DOMAIN db_connections' = DOMAIN db_connections \cup {P}
             /\ \A Q \in DOMAIN db_connections :
                  Q # P => db_connections'[Q] = db_connections[Q]]_vars

\* a JDE record has replaced a Salesforce record under p1, while p2 holds a
\* Salesforce record with its token
C4_Witness ==
    /\ lastOp.handler = "save"
    /\ lastOp.stored
    /\ lastOp.pool_name = Txt("p1")
    /\ lastOp.previous = "Salesforce"
    /\ lastOp.database_type = "JDE"
    /\ DOMAIN db_connections = {Txt("p1"), Txt("p2")}
    /\ "security_token" \notin DOMAIN db_connections[Txt("p1")]
    /\ "security_token" \in DOMAIN db_connections[Txt("p2")]

\* C5 as stated: a connection that fails is never stored, so the backend
\* accepts the connection of every record in the registry.
C5_FailingConnectionNeverStored ==
    \A P \in DOMAIN db_connections : db_connections[P].password = GoodPassword

RecordValid(P, r) ==
    /\ Truthy(P)
    /\ r.status = Txt("active")
    /\ available[r.database_type]
    /\ Truthy(r.host) /\ Truthy(r.username) /\ Truthy(r.password)
    /\ r.database_type = "Salesforce" =>
         "security_token" \in DOMAIN r /\ Truthy(r.security_token)

\* C5, amended: the registry changes only in a Save submitted with a kind
\* whose library is available and no required field blank, whose MERGE (sent
\* when a store session exists) did not raise; every record in the registry
\* has status active and no required field blank.  Save calls no Connector
\* operation.
C5_StoredOnlyByValidSave ==
    [][/\ \A P \in DOMAIN db_connections' : RecordValid(P, db_connections'[P])
       /\ db_connections' # db_connections =>
            /\ lastOp'.handler = "save"
            /\ lastOp'.stored
            /\ ~lastOp'.blank
            /\ ~lastOp'.invoked
            /\ available[lastOp'.database_type]
            /\ session => (sent' # <<>> /\ ~sent'[1].raised)]_vars

\* a record the backend refuses has been saved, its MERGE accepted
C5_Witness ==
    /\ lastOp.handler = "save"
    /\ lastOp.stored
    /\ session
    /\ sent # <<>>
    /\ ~sent[1].raised
    /\ lastOp.pool_name \in DOMAIN db_connections
    /\ db_connections[lastOp.pool_name].password # GoodPassword
    /\ db_connections[lastOp.pool_name].status = Txt("active")

\* C6: a Test or Save submission with a required field blank opens no
\* connection, sends no statement to the metadata store and leaves the
\* registry as it was.
C6_BlankFieldStopsSubmission ==
    [][(lastOp'.handler \in {"test", "save"} /\ lastOp'.blank) =>
         /\ ~lastOp'.invoked
         /\ lastOp'.result.connects = 0
         /\ sent' = <<>>
         /\ db_connections' = db_connections]_vars

-----------------------------------------------------------------------------
(* Claims about saves and queries together, checked under Spec *)

\* the chunks of the passwords and security tokens kept in the registry
SecretChunks ==
    UNION {{db_connections[P].password[i] : i \in 1..Len(db_connections[P].password)}
             \cup {GetToken(db_connections[P], <<>>)[i] :
                     i \in 1..Len(GetToken(db_connections[P], <<>>))} :
           P \in DOMAIN db_connections}

\* the texts interpolated into a statement
TextValues(stmt) ==
    {stmt.values[k] : k \in DOMAIN stmt.values \ {"success", "row_count"}}

NoSecretIn(text) == \A i \in 1..Len(text) : text[i] \notin SecretChunks

\* C7: every row of DB_CONNECTION_METADATA holds kind, host, username and
\* status under its pool name and nothing else, and no statement sent to
\* the store carries the password or the token of a registered record.
C7_SecretsNeverPersisted ==
    /\ \A P \in DOMAIN metadata :
         /\ DOMAIN metadata[P] = {"database_type", "host", "username", "status"}
         /\ NoSecretIn(P)
         /\ \A k \in DOMAIN metadata[P] : NoSecretIn(metadata[P][k])
    /\ \A i \in 1..Len(sent) :
         \A text \in TextValues(sent[i].stmt) : NoSecretIn(text)
    /\ \A i \in 1..Len(history) :
         /\ NoSecretIn(history[i].pool_name)
         /\ NoSecretIn(history[i].query_text)
         /\ NoSecretIn(history[i].error_message)

\* a Salesforce record with password and token is registered, its metadata
\* row written, and a query against it has been logged
C7_Witness ==
    /\ Txt("p1") \in DOMAIN db_connections
    /\ db_connections[Txt("p1")].database_type = "Salesforce"
    /\ GetToken(db_connections[Txt("p1")], <<>>) = Txt("tok")
    /\ Txt("p1") \in DOMAIN metadata
    /\ metadata[Txt("p1")].database_type = Txt("Salesforce")
    /\ Len(history) = 1
    /\ sent # <<>>
    /\ sent[1].stmt.op = "INSERT"

\* C12: among the three kinds the configuration's has_token flag is set for
\* Salesforce and for no other kind, and a record in the registry has a
\* security_token exactly when its kind has the flag, that is, only when
\* its kind is Salesforce.
C12_TokenOnlyForSalesforce ==
    /\ \A k \in Kinds : has_token(k) <=> k = "Salesforce"
    /\ \A P \in DOMAIN db_connections :
         /\ "security_token" \in DOMAIN db_connections[P]
              => db_connections[P].database_type = "Salesforce"
         /\ "security_token" \in DOMAIN db_connections[P]
              <=> has_token(db_connections[P].database_type)

\* a Salesforce record with its token and an SAP record without one are
\* registered, the SAP record saved last
C12_Witness ==
    /\ lastOp.handler = "save"
    /\ lastOp.stored
    /\ lastOp.database_type = "SAP"
    /\ lastOp.pool_name = Txt("p2")
    /\ DOMAIN db_connections = {Txt("p1"), Txt("p2")}
    /\ db_connections[Txt("p1")].database_type = "Salesforce"
    /\ GetToken(db_connections[Txt("p1")], None) = Txt("tok")
    /\ GetToken(db_connections[Txt("p2")], None) = None

-----------------------------------------------------------------------------
(* Claims about what the store keeps, checked under SpecNames *)

\* the step ran a query and the store took its history row
LoggedStep == QueryStep /\ Len(history') = Len(history) + 1

\* C14: the history entry of a query has the pool name of the pool the query
\* ran against, the success flag execute_query returned, the number of rows
\* of the returned table as its row count (0 for an empty table or a
\* failure), and an error message only when the query failed.
C14_HistoryEntryReflectsOutcome ==
    [][LoggedStep =>
         LET entry == history'[Len(history')]
         IN  /\ entry.pool_name = lastOp'.pool_name
             /\ entry.success = lastOp'.result.success
             /\ entry.row_count =
                  (IF lastOp'.result.rows > 0 THEN lastOp'.result.rows ELSE 0)
             /\ entry.error_message # None => ~lastOp'.result.success]_vars

\* the step is a Save whose MERGE raised
RefusedSaveStep ==
    lastOp'.handler = "save" /\ sent' # <<>> /\ sent'[1].raised

\* the registry's record under P and its row of DB_CONNECTION_METADATA
Persisted(registry, rows, P) ==
    /\ P \in DOMAIN rows
    /\ rows[P].database_type = Txt(registry[P].database_type)
    /\ rows[P].host = registry[P].host
    /\ rows[P].username = registry[P].username

\* C16: a Save whose MERGE raises leaves the registry as it was, and in a
\* session with a metadata store every pool name in the registry has a row
\* of DB_CONNECTION_METADATA with the record's kind, host and username.
C16_SaveAllOrNothing ==
    [][/\ RefusedSaveStep => db_connections' = db_connections
       /\ session =>
            \A P \in DOMAIN db_connections' :
                Persisted(db_connections', metadata', P)]_vars

-----------------------------------------------------------------------------
(* Claims about the test buttons, checked under Spec *)

\* the step pressed a test button: the form's, or a saved pool's on tab 3
TestStep == lastOp'.handler \in {"test", "status_test"}

\* C11: a Test Connection action, passing or failing, leaves the registry,
\* the rows of DB_CONNECTION_METADATA, the rows of DB_QUERY_HISTORY and the
\* Connector's connections map as they were and sends no statement to the
\* store; what it reports is a success flag and a message, no table and no
\* row count.
C11_TestHasNoSideEffect ==
    [][TestStep =>
         /\ db_connections' = db_connections
         /\ metadata' = metadata
         /\ history' = history
         /\ connections' = connections
         /\ sent' = <<>>
         /\ lastOp'.result.rows = -1
         /\ lastOp'.result.row_count = 0
         /\ lastOp'.invoked =>
              (lastOp'.result.success
                 <=> lastOp'.result.message = Txt("Connection successful"))]_vars

\* a saved pool whose metadata row and one history row exist has been tested
\* from tab 3, and the test failed
C11_Witness ==
    /\ lastOp.handler = "status_test"
    /\ lastOp.invoked
    /\ ~lastOp.result.success
    /\ lastOp.pool_name \in DOMAIN db_connections
    /\ db_connections[lastOp.pool_name].status = Txt("active")
    /\ lastOp.pool_name \in DOMAIN metadata
    /\ Len(history) = 1

-----------------------------------------------------------------------------
(* Claims about library availability, checked under Spec *)

\* the step submitted the connection form for a kind whose library is missing
UnavailableStep ==
    lastOp'.handler \in {"test", "save"} /\ ~available[lastOp'.database_type]

\* C15: a Test or Save submission for a kind whose client library is not
\* available calls no Connector operation, sends nothing to the metadata
\* store and leaves the registry and the metadata rows as they were; every
\* record in the registry has a kind whose library is available, and every
\* query dispatched is for such a kind.
C15_LibraryGating ==
    [][/\ UnavailableStep =>
            /\ ~lastOp'.invoked
            /\ lastOp'.result.connects = 0
            /\ ~lastOp'.stored
            /\ sent' = <<>>
            /\ metadata' = metadata
            /\ db_connections' = db_connections
       /\ \A P \in DOMAIN db_connections' :
            available'[db_connections'[P].database_type]
       /\ (lastOp'.handler = "query" /\ lastOp'.invoked)
            => available'[lastOp'.database_type]]_vars

\* pyodbc is missing: a completely filled SAP form has been submitted with
\* Save while a record of another kind was registered, and nothing was
\* stored or sent
C15_Witness ==
    /\ ~available["SAP"]
    /\ lastOp.handler = "save"
    /\ lastOp.database_type = "SAP"
    /\ ~lastOp.blank
    /\ ~lastOp.stored
    /\ sent = <<>>
    /\ Txt("p1") \in DOMAIN db_connections
    /\ db_connections[Txt("p1")].database_type # "SAP"

=============================================================================
